---- MODULE Spec2Model ----
(***************************************************************************)
(* Model of the dialogue engine of the membot chatbot:                     *)
(*   src/src/chatbot.cpp    ChatBot (rule of five, ReceiveMessageFromUser,  *)
(*                          SetCurrentNode, ComputeLevenshteinDistance)     *)
(*   src/src/graphnode.cpp  GraphNode (MoveChatbotHere,                     *)
(*                          MoveChatbotToNewNode, accessors)                *)
(* Strings are sequences of one-character strings.                         *)
(***************************************************************************)
EXTENDS Integers, Sequences, FiniteSets, TLC

\* ------------------------------------------------------------------ bounds
\* longest string handed to the matcher in the matcher specification
MaxLen == 3
\* longest user message in the traversal specification
MaxMsgLen == 2
\* longest string in the three-string matcher specification
MaxTriLen == 2
\* most edges and most responses added in the graph-building specification
MaxEdges == 3
MaxTokens == 2

\* ----------------------------------------------------------------- strings
\* ::toupper in the "C" locale on the letters the model uses; every other
\* character is returned unchanged.
LowerCase == <<"a", "b", "e", "h", "i", "l", "o">>
UpperCase == <<"A", "B", "E", "H", "I", "L", "O">>

ToUpper(c) ==
    IF \E i \in 1..Len(LowerCase) : LowerCase[i] = c
    THEN UpperCase[CHOOSE i \in 1..Len(LowerCase) : LowerCase[i] = c]
    ELSE c

\* std::transform(s.begin(), s.end(), s.begin(), ::toupper)
UpperString(s) == [i \in 1..Len(s) |-> ToUpper(s[i])]

\* all strings over alphabet cs of length at most n
StringsUpTo(cs, n) == UNION {[1..k -> cs] : k \in 0..n}

Min2(x, y) == IF x < y THEN x ELSE y

\* ------------------------------------------------- ComputeLevenshteinDistance
\* The body of the inner loop for one j (0-based, as in the code): costs is
\* the rolling row (a function on 0..n), corner the value diagonally above.
\* The result is the pair <<costs, corner>> after the iteration.
InnerStepNoCorner(costs, corner, c1, c2, j) ==
    LET upper == costs[j + 1]
        new   == IF c1 = c2
                 THEN corner
                 ELSE Min2(costs[j], Min2(upper, corner)) + 1
    IN  <<[costs EXCEPT ![j + 1] = new], corner>>

\* the inner-loop body that carries the column index, not the overwritten
\* cell, over as the next corner
InnerStepCornerIndex(costs, corner, c1, c2, j) ==
    LET upper == costs[j + 1]
        new   == IF c1 = c2
                 THEN corner
                 ELSE LET t == IF upper < corner THEN upper ELSE corner
                      IN  (IF costs[j] < t THEN costs[j] ELSE t) + 1
    IN  <<[costs EXCEPT ![j + 1] = new], j>>

InnerStep(costs, corner, c1, c2, j) ==
    LET upper == costs[j + 1]
        new   == IF c1 = c2
                 THEN corner
                 ELSE LET t == IF upper < corner THEN upper ELSE corner
                      IN  (IF costs[j] < t THEN costs[j] ELSE t) + 1
    IN  <<[costs EXCEPT ![j + 1] = new], upper>>

\* for (it2 = s2.begin(); it2 != s2.end(); ++it2, ++j)
RECURSIVE InnerLoop(_, _, _, _, _)
InnerLoop(costs, corner, c1, s2, j) ==
    IF j >= Len(s2)
    THEN costs
    ELSE LET r == InnerStep(costs, corner, c1, s2[j + 1], j)
         IN  InnerLoop(r[1], r[2], c1, s2, j + 1)

\* the outer loop without costs[0] = i + 1: the first column keeps its 0
RECURSIVE OuterLoopStaleColumn(_, _, _, _)
OuterLoopStaleColumn(costs, s1, s2, i) ==
    IF i >= Len(s1)
    THEN costs
    ELSE OuterLoopStaleColumn(InnerLoop(costs, i, s1[i + 1], s2, 0), s1, s2, i + 1)

\* for (it1 = s1.begin(); it1 != s1.end(); ++it1, ++i)
RECURSIVE OuterLoop(_, _, _, _)
OuterLoop(costs, s1, s2, i) ==
    IF i >= Len(s1)
    THEN costs
    ELSE LET c0 == [costs EXCEPT ![0] = i + 1]
         IN  OuterLoop(InnerLoop(c0, i, s1[i + 1], s2, 0), s1, s2, i + 1)

\* the matcher with only its first argument converted to upper case
ComputeLevenshteinDistanceHalfUpper(a, b) ==
    LET s1 == UpperString(a)
        s2 == b
        m  == Len(s1)
        n  == Len(s2)
    IN  IF m = 0 THEN n
        ELSE IF n = 0 THEN m
        ELSE OuterLoop([k \in 0..n |-> k], s1, s2, 0)[n]

\* int ChatBot::ComputeLevenshteinDistance(std::string s1, std::string s2)
ComputeLevenshteinDistance(a, b) ==
    LET s1 == UpperString(a)
        s2 == UpperString(b)
        m  == Len(s1)
        n  == Len(s2)
    IN  IF m = 0 THEN n
        ELSE IF n = 0 THEN m
        ELSE OuterLoop([k \in 0..n |-> k], s1, s2, 0)[n]

\* Reference edit distance (Wagner-Fischer recurrence on prefixes): the least
\* number of single-character insertions, deletions and substitutions.
RECURSIVE RefLev(_, _, _, _)
RefLev(s, t, i, j) ==
    IF i = 0 THEN j
    ELSE IF j = 0 THEN i
    ELSE LET sub == RefLev(s, t, i - 1, j - 1) + (IF s[i] = t[j] THEN 0 ELSE 1)
             del == RefLev(s, t, i - 1, j) + 1
             ins == RefLev(s, t, i, j - 1) + 1
         IN  Min2(sub, Min2(del, ins))

RefDistance(s, t) == RefLev(s, t, Len(s), Len(t))

\* -------------------------------------------------------------- pointers
\* Node ids, ChatBot ids and pointer values are strings so that a pointer can
\* be compared with the null pointer.
NULL == "null"
\* an indeterminate non-null bit pattern (the value of a pointer member that
\* was never written)
WILD == "wild"
\* wxBitmap handles are positive numbers; NULL image pointer:
NullImage == 0

Nodes == {"n0", "n1", "n2"}
\* the ChatLogic object whose address ChatBot::_chatLogic holds
TheChatLogic == "logic"
\* the ChatBot instances: one member _chatBot per GraphNode (named like the
\* node), the instance the loader creates ("local"), and the by-value
\* parameter of GraphNode::MoveChatbotHere ("param")
LocalBot == "local"
ParamBot == "param"
BotIds == Nodes \cup {LocalBot, ParamBot}

\* ---------------------------------------------------------------- graphs
Edge(kws, child) == [keywords |-> kws, childNode |-> child]

\* section 8 of the specification: "hi" and "hello" leave the root
GraphHello ==
    [root |-> "n0",
     answers |-> [n \in Nodes |->
        CASE n = "n0" -> <<"Welcome", "Hi there">>
          [] n = "n1" -> <<"Short greeting">>
          [] n = "n2" -> <<"Long greeting", "Hello again">>],
     childEdges |-> [n \in Nodes |->
        CASE n = "n0" -> <<Edge(<<<<"h", "i">>>>, "n1"),
                           Edge(<<<<"h", "e", "l", "l", "o">>>>, "n2")>>
          [] n = "n1" -> <<>>
          [] n = "n2" -> <<Edge(<<<<"a", "b">>, <<"B">>>>, "n2"),
                           Edge(<<<<"a">>>>, "n0")>>]]

\* equal minimum distances between edges, and between keywords of one edge
GraphTies ==
    [root |-> "n0",
     answers |-> [n \in Nodes |->
        CASE n = "n0" -> <<"Root says">>
          [] n = "n1" -> <<"First", "First again">>
          [] n = "n2" -> <<"Second">>],
     childEdges |-> [n \in Nodes |->
        CASE n = "n0" -> <<Edge(<<<<"a">>>>, "n1"),
                           Edge(<<<<"b">>, <<"A">>>>, "n2")>>
          [] n = "n1" -> <<Edge(<<<<"b", "b">>, <<"a", "a">>>>, "n1"),
                           Edge(<<<<"a", "b">>>>, "n0"),
                           Edge(<<<<"B", "A">>>>, "n2")>>
          [] n = "n2" -> <<>>]]

\* a node without responses, an edge without keywords, a root that is a leaf
\* of the pair enumeration
GraphEmpty ==
    [root |-> "n1",
     answers |-> [n \in Nodes |->
        CASE n = "n0" -> <<>>
          [] n = "n1" -> <<"Start">>
          [] n = "n2" -> <<"End", "">>],
     childEdges |-> [n \in Nodes |->
        CASE n = "n0" -> <<Edge(<<>>, "n2")>>
          [] n = "n1" -> <<Edge(<<<<"a">>>>, "n0"), Edge(<<<<"b">>>>, "n2")>>
          [] n = "n2" -> <<Edge(<<>>, "n0"), Edge(<<>>, "n1")>>]]

\* the root has no outgoing edge at all
GraphLeafRoot ==
    [root |-> "n0",
     answers |-> [n \in Nodes |-> <<"Only answer">>],
     childEdges |-> [n \in Nodes |-> <<>>]]

Graphs == {GraphHello, GraphTies, GraphEmpty, GraphLeafRoot}

MsgChars == {"a", "B"}
Msgs == StringsUpTo(MsgChars, MaxMsgLen) \cup {<<"h", "e", "l", "o">>}

VARIABLES
    graph,    \* the loaded dialogue graph (read-only during traversal)
    bots,     \* ChatBot id -> its members
    alive,    \* the ChatBot instances constructed and not destroyed
    handle,   \* ChatLogic::_chatBot, the handle set by SetChatbotHandle
    heap,     \* the wxBitmap objects allocated and not deleted
    sink,     \* what ChatLogic::SendMessageToUser received in the last call
    status,   \* outcome of the last operation
    fault,    \* the undefined behaviour that was executed, if any
    call,     \* the last operation and its inputs
    twin,     \* a second engine instance over the same graph
    lev       \* the matcher specification's call

vars == <<graph, bots, alive, handle, heap, sink, status, fault, call, twin, lev>>

\* the engine as one value
Engine ==
    [bots |-> bots, alive |-> alive, handle |-> handle, heap |-> heap,
     sink |-> sink, status |-> status, fault |-> fault, graph |-> graph]

\* ------------------------------------------------------------ heap, faults
\* the members of a ChatBot id at which no object lives
NoBot == [image |-> NullImage, currentNode |-> NULL, rootNode |-> NULL, chatLogic |-> NULL]

\* the process is gone: nothing further executes
Dead(m) == m.status \in {"crashed", "aborted"}

\* undefined behaviour whose outcome is the end of the process
Crash(m, why) == [m EXCEPT !.status = "crashed", !.fault = why]

\* new wxBitmap: the allocator hands out the lowest free handle
NewImage(h) ==
    CHOOSE i \in 1..(Cardinality(h) + 1) : i \notin h /\ \A k \in 1..(i - 1) : k \in h

\* delete _image
DeleteImage(m, img) ==
    IF img \in m.heap THEN [m EXCEPT !.heap = @ \ {img}] ELSE Crash(m, "double_free")

\* _chatLogic->SetChatbotHandle(this)
SetChatbotHandle(m, b) ==
    IF m.bots[b].chatLogic # TheChatLogic THEN Crash(m, "null_deref")
    ELSE [m EXCEPT !.handle = b]

\* _image = new wxBitmap(); *_image = *source._image;
DeepCopyImage(m, dst, src) ==
    LET img == NewImage(m.heap)
    IN  IF m.bots[src].image \notin m.heap
        THEN Crash(m, IF m.bots[src].image = NullImage THEN "null_deref" ELSE "use_after_free")
        ELSE [m EXCEPT !.heap = @ \cup {img}, !.bots[dst].image = img]

\* a copy that forgets _rootNode
ShallowCopyNoRoot(m, dst, src) ==
    [m EXCEPT !.bots[dst].currentNode = m.bots[src].currentNode,
              !.bots[dst].chatLogic = m.bots[src].chatLogic]

\* create shallow copy for non-owned data
ShallowCopyHandles(m, dst, src) ==
    [m EXCEPT !.bots[dst].currentNode = m.bots[src].currentNode,
              !.bots[dst].rootNode = m.bots[src].rootNode,
              !.bots[dst].chatLogic = m.bots[src].chatLogic]

\* invalidate source handles for non-owned data
InvalidateHandles(m, src) ==
    [m EXCEPT !.bots[src].currentNode = NULL,
              !.bots[src].rootNode = NULL,
              !.bots[src].chatLogic = NULL]

\* ------------------------------------------------------- ChatBot rule of five
\* ChatBot::ChatBot(): _currentNode is not written and keeps the
\* indeterminate value g of its storage.
ChatBotDefaultCtor(m, b, g) ==
    [m EXCEPT !.alive = @ \cup {b},
              !.bots[b] = [image |-> NullImage, currentNode |-> g,
                           rootNode |-> NULL, chatLogic |-> NULL]]

\* ChatBot::ChatBot(std::string filename)
ChatBotFileCtor(m, b, g) ==
    LET img == NewImage(m.heap)
    IN  [m EXCEPT !.alive = @ \cup {b},
                  !.heap = @ \cup {img},
                  !.bots[b] = [image |-> img, currentNode |-> g,
                               rootNode |-> NULL, chatLogic |-> NULL]]

\* ChatBot::~ChatBot()
ChatBotDtor(m, b) ==
    IF Dead(m) THEN m
    ELSE LET m1 == IF m.bots[b].image # NullImage
                   THEN DeleteImage(m, m.bots[b].image)
                   ELSE m
         IN  IF Dead(m1) THEN m1
             ELSE [m1 EXCEPT !.alive = @ \ {b}, !.bots[b] = NoBot]

\* a copy constructor that copies the image pointer, not the image
ChatBotCopyCtorShallow(m, dst, src) ==
    IF Dead(m) THEN m
    ELSE LET m0 == [m EXCEPT !.alive = @ \cup {dst},
                             !.bots[dst].image = m.bots[src].image]
         IN  SetChatbotHandle(ShallowCopyHandles(m0, dst, src), dst)

\* ChatBot::ChatBot(const ChatBot &source)
ChatBotCopyCtor(m, dst, src) ==
    IF Dead(m) THEN m
    ELSE LET m0 == [m EXCEPT !.alive = @ \cup {dst}]
             m1 == DeepCopyImage(m0, dst, src)
             m2 == ShallowCopyHandles(m1, dst, src)
         IN  IF Dead(m1) THEN m1 ELSE SetChatbotHandle(m2, dst)

\* a copy assignment that does not register the destination with ChatLogic
ChatBotCopyAssignNoHandle(m, dst, src) ==
    IF Dead(m) \/ dst = src THEN m
    ELSE LET m1 == IF m.bots[dst].image # NullImage
                   THEN DeleteImage(m, m.bots[dst].image)
                   ELSE m
             m2 == DeepCopyImage(m1, dst, src)
         IN  IF Dead(m1) THEN m1
             ELSE IF Dead(m2) THEN m2
             ELSE ShallowCopyHandles(m2, dst, src)

\* ChatBot &ChatBot::operator=(const ChatBot &source)
ChatBotCopyAssign(m, dst, src) ==
    IF Dead(m) \/ dst = src THEN m
    ELSE LET m1 == IF m.bots[dst].image # NullImage
                   THEN DeleteImage(m, m.bots[dst].image)
                   ELSE m
             m2 == DeepCopyImage(m1, dst, src)
             m3 == ShallowCopyHandles(m2, dst, src)
         IN  IF Dead(m1) THEN m1
             ELSE IF Dead(m2) THEN m2
             ELSE SetChatbotHandle(m3, dst)

\* a move constructor that leaves the image pointer of the source in place
ChatBotMoveCtorKeepsImage(m, dst, src) ==
    IF Dead(m) THEN m
    ELSE LET m0 == [m EXCEPT !.alive = @ \cup {dst},
                             !.bots[dst].image = m.bots[src].image]
             m1 == ShallowCopyHandles(m0, dst, src)
             m2 == SetChatbotHandle(m1, dst)
         IN  IF Dead(m2) THEN m2 ELSE InvalidateHandles(m2, src)

\* ChatBot::ChatBot(ChatBot &&source)
ChatBotMoveCtor(m, dst, src) ==
    IF Dead(m) THEN m
    ELSE LET m0 == [m EXCEPT !.alive = @ \cup {dst},
                             !.bots[dst].image = m.bots[src].image,
                             !.bots[src].image = NullImage]
             m1 == ShallowCopyHandles(m0, dst, src)
             m2 == SetChatbotHandle(m1, dst)
         IN  IF Dead(m2) THEN m2 ELSE InvalidateHandles(m2, src)

\* ChatBot &ChatBot::operator=(ChatBot &&source)
ChatBotMoveAssign(m, dst, src) ==
    IF Dead(m) \/ dst = src THEN m
    ELSE LET m1 == IF m.bots[dst].image # NullImage
                   THEN DeleteImage(m, m.bots[dst].image)
                   ELSE m
             m2 == [m1 EXCEPT !.bots[dst].image = m1.bots[src].image,
                              !.bots[src].image = NullImage]
             m3 == ShallowCopyHandles(m2, dst, src)
             m4 == SetChatbotHandle(m3, dst)
         IN  IF Dead(m1) THEN m1
             ELSE IF Dead(m4) THEN m4
             ELSE InvalidateHandles(m4, src)

\* ------------------------------------------------------------ SetCurrentNode
\* std::mt19937 generator(int(std::time(0))); dis(generator): the generator
\* is a fixed function of its seed; seed % n stands for a draw from 0..n-1
\* that is determined by the seed alone and can yield every index.
MtDraw(seed, n) == seed % n

\* the same, always drawing index 0 of the node the chatbot came from
SetCurrentNodeStale(m, b, node, seed, ub) ==
    LET old == m.bots[b].currentNode
        m1  == [m EXCEPT !.bots[b].currentNode = node]
    IN  IF old \in Nodes /\ Len(graph.answers[old]) > 0
        THEN [m1 EXCEPT !.sink = Append(@, graph.answers[old][1])]
        ELSE [m1 EXCEPT !.sink = Append(@, "")]

\* SetCurrentNode taking the answers by reference and removing the one it
\* sends
SetCurrentNodeConsuming(m, b, node, seed, ub) ==
    IF Dead(m) THEN m
    ELSE LET m1      == [m EXCEPT !.bots[b].currentNode = node]
             answers == graph.answers[node]
             k       == MtDraw(seed, Len(answers)) + 1
         IN  IF Len(answers) = 0
             THEN [m1 EXCEPT !.status = ub, !.fault = "empty_distribution"]
             ELSE [m1 EXCEPT !.sink = Append(@, answers[k]),
                             !.graph.answers[node] =
                                 SubSeq(answers, 1, k - 1) \o SubSeq(answers, k + 1, Len(answers))]

\* ChatBot::SetCurrentNode(GraphNode *node).  With no answers the
\* distribution is built over (0, -1), which is undefined, and the draw from
\* it ends the process: ub is the way it ends.
SetCurrentNode(m, b, node, seed, ub) ==
    IF Dead(m) THEN m
    ELSE LET m1      == [m EXCEPT !.bots[b].currentNode = node]
             answers == graph.answers[node]
         IN  IF Len(answers) = 0
             THEN [m1 EXCEPT !.status = ub, !.fault = "empty_distribution"]
             ELSE IF m1.bots[b].chatLogic # TheChatLogic THEN Crash(m1, "null_deref")
             ELSE [m1 EXCEPT !.sink = Append(@, answers[MtDraw(seed, Len(answers)) + 1])]

\* ----------------------------------------------------------------- GraphNode
\* GraphNode::GetChildEdgeAtIndex(int index), 0-based
GetChildEdgeAtIndex(node, index) == graph.childEdges[node][index + 1]

\* GraphNode::GetNumberOfChildEdges()
GetNumberOfChildEdges(node) == Len(graph.childEdges[node])

\* MoveChatbotHere calling SetCurrentNode on the parameter instead of the
\* member
MoveChatbotHereOnParam(m, node, src, byMove, seed, ub) ==
    IF Dead(m) THEN m
    ELSE IF node \notin Nodes THEN Crash(m, "null_deref")
    ELSE LET m1 == IF byMove THEN ChatBotMoveCtor(m, ParamBot, src)
                             ELSE ChatBotCopyCtor(m, ParamBot, src)
             m2 == ChatBotCopyAssign(m1, node, ParamBot)
             m3 == SetCurrentNode(m2, ParamBot, node, seed, ub)
         IN  ChatBotDtor(m3, ParamBot)

\* GraphNode::MoveChatbotHere(ChatBot chatbot): the parameter is constructed
\* from the caller's argument src (moved from it when byMove), assigned to
\* the member _chatBot, and destroyed on return.
MoveChatbotHere(m, node, src, byMove, seed, ub) ==
    IF Dead(m) THEN m
    ELSE IF node \notin Nodes THEN Crash(m, "null_deref")
    ELSE LET m1 == IF byMove THEN ChatBotMoveCtor(m, ParamBot, src)
                             ELSE ChatBotCopyCtor(m, ParamBot, src)
             m2 == ChatBotCopyAssign(m1, node, ParamBot)
             m3 == SetCurrentNode(m2, node, node, seed, ub)
         IN  ChatBotDtor(m3, ParamBot)

\* MoveChatbotToNewNode that invalidates the member after handing it over,
\* as the pointer version did with _chatBot = nullptr
MoveChatbotToNewNodeInvalidate(m, node, newNode, seed, ub) ==
    LET m1 == MoveChatbotHere(m, newNode, node, FALSE, seed, ub)
    IN  IF Dead(m1) THEN m1 ELSE InvalidateHandles(m1, node)

\* GraphNode::MoveChatbotToNewNode(GraphNode *newNode)
MoveChatbotToNewNode(m, node, newNode, seed, ub) ==
    MoveChatbotHere(m, newNode, node, FALSE, seed, ub)

\* ---------------------------------------------------- ReceiveMessageFromUser
\* the (edge, keyword) pairs of one edge, in keyword order
EdgePairs(node, i, message) ==
    LET kws == GetChildEdgeAtIndex(node, i).keywords
    IN  [k \in 1..Len(kws) |->
            [edge |-> i, dist |-> ComputeLevenshteinDistance(kws[k], message)]]

\* levDists: the pairs of edges i, i+1, ... of node, in enumeration order
RECURSIVE LevDistsFrom(_, _, _)
LevDistsFrom(node, i, message) ==
    IF i >= GetNumberOfChildEdges(node) THEN <<>>
    ELSE EdgePairs(node, i, message) \o LevDistsFrom(node, i + 1, message)

LevDists(node, message) == LevDistsFrom(node, 0, message)

\* a comparator that orders by descending distance
CompDescending(a, b) == a.dist > b.dist

\* the comparator handed to std::sort
Comp(a, b) == a.dist < b.dist

\* std::sort is not stable: every arrangement of levDists that is ordered by
\* Comp is a possible result.  An arrangement is a permutation of the indices.
SortOutcomes(levDists) ==
    LET n == Len(levDists)
    IN  {p \in Permutations(1..n) :
            \A i, j \in 1..n : i < j => ~Comp(levDists[p[j]], levDists[p[i]])}

\* the values levDists.at(0) can have after std::sort
SortedFront(levDists) == {levDists[p[1]] : p \in SortOutcomes(levDists)}

\* the node the chatbot stays on when nothing matches
NextNodeStay(m, b, message, front) ==
    LET cur == m.bots[b].currentNode
    IN  IF Len(LevDists(cur, message)) > 0
        THEN GetChildEdgeAtIndex(cur, front.edge).childNode
        ELSE cur

\* "select best fitting edge to proceed along": newNode, where front is
\* levDists.at(0) after the sort (not read when levDists is empty)
NextNode(m, b, message, front) ==
    LET cur      == m.bots[b].currentNode
        levDists == LevDists(cur, message)
    IN  IF Len(levDists) > 0
        THEN GetChildEdgeAtIndex(cur, front.edge).childNode
        ELSE m.bots[b].rootNode

\* ChatBot::ReceiveMessageFromUser(std::string message) on ChatBot b
ReceiveMessageFromUser(m, b, message, front, seed, ub) ==
    IF Dead(m) THEN m
    ELSE IF m.bots[b].currentNode \notin Nodes THEN Crash(m, "wild_deref")
    ELSE MoveChatbotToNewNode(m, m.bots[b].currentNode,
                              NextNode(m, b, message, front), seed, ub)

\* ------------------------------------------------------------ initial state
\* values an unwritten pointer member can hold
Garbage == {NULL, WILD}

\* wall-clock readings time(0) can return
MaxClock == 1
Seeds == 0..MaxClock

\* outcomes of drawing from the distribution over an empty answer list:
\* operator() recurses without bound until the stack overflows and the
\* process is killed by a signal ("crashed"), or a library build with
\* assertions aborts the process ("aborted"); answers.at() is not reached
UbOutcomes == {"crashed", "aborted"}

\* the outcomes to consider for a call that arrives at node; with answers
\* at the node the outcome is not consulted and one value stands for it
UbOutcomesAt(node) ==
    IF node \in Nodes /\ Len(graph.answers[node]) = 0 THEN UbOutcomes ELSE {"crashed"}

\* before any object exists
BlankEngine ==
    [bots |-> [b \in BotIds |-> NoBot], alive |-> {}, handle |-> NULL, heap |-> {},
     sink |-> <<>>, status |-> "ok", fault |-> "none"]

\* GraphNode::GraphNode(int id) for every node of the loaded graph: each
\* default-constructs its member _chatBot
LoadedEngine(g) ==
    ChatBotDefaultCtor(
        ChatBotDefaultCtor(
            ChatBotDefaultCtor(BlankEngine, "n0", g["n0"]), "n1", g["n1"]), "n2", g["n2"])

NoCall == [op |-> "none", from |-> NULL, msg |-> <<>>]

LevChars == {"a", "A", "b", "B"}
LevIdle == [a |-> <<>>, b |-> <<>>, pc |-> "idle", result |-> 0]

Install(m) ==
    /\ bots' = m.bots
    /\ alive' = m.alive
    /\ handle' = m.handle
    /\ heap' = m.heap
    /\ sink' = m.sink
    /\ status' = m.status
    /\ fault' = m.fault
    /\ graph' = m.graph

Init ==
    /\ graph \in Graphs
    /\ \E g \in [Nodes -> Garbage] :
        /\ bots = LoadedEngine(g).bots
        /\ twin = LoadedEngine(g)
    /\ alive = Nodes
    /\ handle = NULL
    /\ heap = {}
    /\ sink = <<>>
    /\ status = "ok"
    /\ fault = "none"
    /\ call = NoCall
    /\ lev = LevIdle

\* what a call starts from: the previous call's outcome is cleared
Fresh(m) == [m EXCEPT !.sink = <<>>, !.status = "ok", !.fault = "none"]

\* the loader's hand-over of the chatbot to the root node:
\* SetChatLogicHandle(this), SetRootNode(rootNode),
\* rootNode->MoveChatbotHere(chatBot)
InitializeEngine(m, byMove, seed, ub) ==
    LET m1 == [Fresh(m) EXCEPT !.bots[LocalBot].chatLogic = TheChatLogic,
                               !.bots[LocalBot].rootNode = graph.root]
    IN  MoveChatbotHere(m1, graph.root, LocalBot, byMove, seed, ub)

\* ------------------------------------------------------------------ actions
\* the loader creates its ChatBot with ChatBot()
CtorDefault ==
    /\ call.op = "none" /\ lev.pc = "idle"
    /\ \E g \in Garbage : Install(ChatBotDefaultCtor(Engine, LocalBot, g))
    /\ call' = [NoCall EXCEPT !.op = "ctor"]
    /\ UNCHANGED <<twin, lev>>

\* the loader creates its ChatBot with ChatBot(filename)
CtorFile ==
    /\ call.op = "none" /\ lev.pc = "idle"
    /\ \E g \in Garbage : Install(ChatBotFileCtor(Engine, LocalBot, g))
    /\ call' = [NoCall EXCEPT !.op = "ctor"]
    /\ UNCHANGED <<twin, lev>>

\* the chatbot is placed on the root node
Initialize ==
    /\ call.op = "ctor"
    /\ \E byMove \in BOOLEAN, seed \in Seeds, ub \in UbOutcomesAt(graph.root) :
        /\ Install(InitializeEngine(Engine, byMove, seed, ub))
        /\ call' = [NoCall EXCEPT !.op = "init"]
    /\ UNCHANGED <<twin, lev>>

\* what std::sort can leave at the front; one placeholder when there is
\* nothing to sort
NoPair == [edge |-> 0, dist |-> 0]
Fronts(node, msg) ==
    IF Len(LevDists(node, msg)) > 0 THEN SortedFront(LevDists(node, msg)) ELSE {NoPair}

\* a call can be made: the chatbot was placed on the root, the process
\* lives, and the handle designates a ChatBot that is on a node
ReceiveEnabled ==
    /\ call.op \in {"init", "receive"}
    /\ ~Dead(Engine)
    /\ handle \in alive
    /\ bots[handle].currentNode \in Nodes

\* ChatLogic forwards a user message to the ChatBot its handle designates
Receive ==
    /\ ReceiveEnabled
    /\ \E msg \in Msgs :
        \E front \in Fronts(bots[handle].currentNode, msg) :
            \E seed \in Seeds, ub \in UbOutcomesAt(NextNode(Engine, handle, msg, front)) :
                /\ Install(ReceiveMessageFromUser(Fresh(Engine), handle, msg, front, seed, ub))
                /\ call' = [op |-> "receive", from |-> bots[handle].currentNode, msg |-> msg]
    /\ UNCHANGED <<twin, lev>>

Next == CtorDefault \/ CtorFile \/ Initialize \/ Receive

Spec == Init /\ [][Next]_vars

\* the conversation cursor: _currentNode of the ChatBot the ChatLogic handle
\* designates
Cursor == IF handle \in BotIds THEN bots[handle].currentNode ELSE NULL

\* ------------------------------------------------- two engines side by side
\* A second engine instance (twin) over the same graph is constructed,
\* initialized and fed exactly like the first.  Each instance reads the clock
\* and sorts on its own.
TwinCursor == IF twin.handle \in BotIds THEN twin.bots[twin.handle].currentNode ELSE NULL

\* the inputs fed to both instances
PairMsgs == {msg \in Msgs : Len(msg) <= 1}

\* the two instances are built on storage of their own: the unwritten
\* _currentNode of each node's ChatBot has its own value in each
InitPair ==
    /\ graph \in Graphs
    /\ \E g1 \in [Nodes -> Garbage], g2 \in [Nodes -> Garbage] :
        /\ bots = LoadedEngine(g1).bots
        /\ twin = LoadedEngine(g2)
    /\ alive = Nodes
    /\ handle = NULL
    /\ heap = {}
    /\ sink = <<>>
    /\ status = "ok"
    /\ fault = "none"
    /\ call = NoCall
    /\ lev = LevIdle

PairCtor ==
    /\ call.op = "none" /\ lev.pc = "idle"
    /\ \E g1 \in Garbage, g2 \in Garbage :
        /\ Install(ChatBotFileCtor(Engine, LocalBot, g1))
        /\ twin' = ChatBotFileCtor(twin, LocalBot, g2)
    /\ call' = [NoCall EXCEPT !.op = "pair_ctor"]
    /\ UNCHANGED lev

PairInitialize ==
    /\ call.op = "pair_ctor"
    /\ \E byMove \in BOOLEAN, seed1 \in Seeds, seed2 \in Seeds :
        \E ub1 \in UbOutcomesAt(graph.root), ub2 \in UbOutcomesAt(graph.root) :
            /\ Install(InitializeEngine(Engine, byMove, seed1, ub1))
            /\ twin' = InitializeEngine(twin, byMove, seed2, ub2)
    /\ call' = [NoCall EXCEPT !.op = "pair_init"]
    /\ UNCHANGED lev

PairReceive ==
    /\ call.op \in {"pair_init", "pair_receive"}
    /\ ~Dead(Engine) /\ ~Dead(twin)
    /\ handle \in alive /\ twin.handle \in twin.alive
    /\ Cursor \in Nodes /\ TwinCursor \in Nodes
    /\ \E msg \in PairMsgs :
        \E front1 \in Fronts(Cursor, msg), front2 \in Fronts(TwinCursor, msg) :
            \E seed1 \in Seeds, seed2 \in Seeds :
                \E ub1 \in UbOutcomesAt(NextNode(Engine, handle, msg, front1)),
                   ub2 \in UbOutcomesAt(NextNode(twin, twin.handle, msg, front2)) :
                    /\ Install(ReceiveMessageFromUser(Fresh(Engine), handle, msg,
                                                      front1, seed1, ub1))
                    /\ twin' = ReceiveMessageFromUser(Fresh(twin), twin.handle, msg,
                                                      front2, seed2, ub2)
                    /\ call' = [op |-> "pair_receive", from |-> Cursor, msg |-> msg]
    /\ UNCHANGED lev

NextPair == PairCtor \/ PairInitialize \/ PairReceive

SpecPair == InitPair /\ [][NextPair]_vars

\* ----------------------------------------------------- matcher specification
InitLev ==
    /\ lev \in [a : StringsUpTo(LevChars, MaxLen), b : StringsUpTo(LevChars, MaxLen),
                pc : {"call"}, result : {0}]
    /\ graph = GraphLeafRoot
    /\ bots = BlankEngine.bots
    /\ alive = {}
    /\ handle = NULL
    /\ heap = {}
    /\ sink = <<>>
    /\ status = "ok"
    /\ fault = "none"
    /\ call = NoCall
    /\ twin = BlankEngine

LevCompute ==
    /\ lev.pc = "call"
    /\ lev' = [lev EXCEPT !.pc = "returned",
                          !.result = ComputeLevenshteinDistance(lev.a, lev.b)]
    /\ UNCHANGED <<graph, bots, alive, handle, heap, sink, status, fault, call, twin>>

SpecLev == InitLev /\ [][LevCompute]_vars

\* ------------------------------------------ three-string matcher specification
TriChars == {"a", "A", "b"}

\* lev holds three strings and, once the calls returned, the three distances
InitTri ==
    /\ lev \in [a : StringsUpTo(TriChars, MaxTriLen), b : StringsUpTo(TriChars, MaxTriLen),
                c : StringsUpTo(TriChars, MaxTriLen),
                pc : {"call"}, ab : {0}, bc : {0}, ac : {0}]
    /\ graph = GraphLeafRoot
    /\ bots = BlankEngine.bots
    /\ alive = {}
    /\ handle = NULL
    /\ heap = {}
    /\ sink = <<>>
    /\ status = "ok"
    /\ fault = "none"
    /\ call = NoCall
    /\ twin = BlankEngine

\* ComputeLevenshteinDistance called on each of the three pairs
TriCompute ==
    /\ lev.pc = "call"
    /\ lev' = [lev EXCEPT !.pc = "returned",
                          !.ab = ComputeLevenshteinDistance(lev.a, lev.b),
                          !.bc = ComputeLevenshteinDistance(lev.b, lev.c),
                          !.ac = ComputeLevenshteinDistance(lev.a, lev.c)]
    /\ UNCHANGED <<graph, bots, alive, handle, heap, sink, status, fault, call, twin>>

SpecTri == InitTri /\ [][TriCompute]_vars

\* ------------------------------------------------ graph-building specification
\* In this specification the graph is under construction: graph.childEdges
\* and graph.parentEdges hold GraphEdge pointers (positive numbers), heap is
\* the set of GraphEdge objects that are allocated (no ChatBot owns an image
\* here), alive is the set of live ChatBot members, one per live GraphNode,
\* and call records the calls made so far.

\* the nodes the loader adds to, and the responses it adds
BuildNodes == {"n0", "n1"}
BuildTokens == {"x", "y"}

\* void GraphNode::AddToken(std::string token)
\* a variant that skips a response the node already has
AddTokenUnique(m, node, token) ==
    IF \E k \in 1..Len(m.graph.answers[node]) : m.graph.answers[node][k] = token
    THEN m
    ELSE [m EXCEPT !.graph.answers[node] = Append(@, token)]

\* void GraphNode::AddToken(std::string token): _answers.emplace_back(token)
AddToken(m, node, token) ==
    [m EXCEPT !.graph.answers[node] = Append(@, token)]

\* void GraphNode::AddEdgeToParentNode(GraphEdge *edge):
\* _parentEdges.emplace_back(edge)
AddEdgeToParentNode(m, node, edge) ==
    [m EXCEPT !.graph.parentEdges[node] = Append(@, edge)]

\* a variant that puts the new edge at the front of the list
AddEdgeToChildNodeFront(m, node, edge) ==
    [m EXCEPT !.graph.childEdges[node] = <<edge>> \o @]

\* void GraphNode::AddEdgeToChildNode(std::unique_ptr<GraphEdge> edge):
\* _childEdges.emplace_back(std::move(edge)); the list now owns the edge
AddEdgeToChildNode(m, node, edge) ==
    [m EXCEPT !.graph.childEdges[node] = Append(@, edge)]

\* outcomes of deleting a GraphEdge that is not allocated: the allocator
\* detects the double free and aborts the process, the process is killed by
\* a signal, or the second delete goes unnoticed and the process goes on
DoubleDeleteOutcomes == {"aborted", "crashed", "unnoticed"}

\* delete of a GraphEdge; ub is the outcome taken when the edge is not
\* allocated.  fault records that an edge was deleted twice, also when the
\* process goes on.
DeleteEdge(m, edge, ub) ==
    IF edge \in m.heap THEN [m EXCEPT !.heap = @ \ {edge}]
    ELSE IF ub = "unnoticed" THEN [m EXCEPT !.fault = "double_free"]
    ELSE [m EXCEPT !.status = ub, !.fault = "double_free"]

\* destruction of a list of owning pointers, each deleting its edge
RECURSIVE DeleteEdges(_, _, _, _)
DeleteEdges(m, edges, i, ub) ==
    IF Dead(m) \/ i > Len(edges) THEN m
    ELSE DeleteEdges(DeleteEdge(m, edges[i], ub), edges, i + 1, ub)

\* a destructor that deletes the edges of both lists
GraphNodeDtorDeletesParents(m, node, ub) ==
    LET m1 == ChatBotDtor(m, node)
        m2 == DeleteEdges(m1, m.graph.parentEdges[node], 1, ub)
        m3 == DeleteEdges(m2, m.graph.childEdges[node], 1, ub)
    IN  IF Dead(m3) THEN m3
        ELSE [m3 EXCEPT !.graph.answers[node] = <<>>,
                        !.graph.childEdges[node] = <<>>,
                        !.graph.parentEdges[node] = <<>>]

\* GraphNode::~GraphNode(): the body is empty; the members are destroyed in
\* reverse order: _chatBot, then _parentEdges (plain pointers, nothing is
\* deleted), _childEdges (each unique_ptr deletes its edge) and _answers
GraphNodeDtor(m, node, ub) ==
    LET m1 == ChatBotDtor(m, node)
        m2 == DeleteEdges(m1, m.graph.childEdges[node], 1, ub)
    IN  IF Dead(m2) THEN m2
        ELSE [m2 EXCEPT !.graph.answers[node] = <<>>,
                        !.graph.childEdges[node] = <<>>,
                        !.graph.parentEdges[node] = <<>>]

\* the loader makes an edge from parent to child: it allocates the edge,
\* registers it with the child and hands it over to the parent
LoadEdge(m, edge, parent, child) ==
    LET m1 == [m EXCEPT !.heap = @ \cup {edge}]
        m2 == AddEdgeToParentNode(m1, child, edge)
    IN  AddEdgeToChildNode(m2, parent, edge)

\* the nodes as constructed: no responses, no edges
GraphUnbuilt ==
    [root |-> "n0",
     answers |-> [n \in Nodes |-> <<>>],
     childEdges |-> [n \in Nodes |-> <<>>],
     parentEdges |-> [n \in Nodes |-> <<>>]]

\* the calls made so far: the last one, and per node the edges handed to
\* AddEdgeToChildNode and the responses handed to AddToken, in call order
NoBuildCall ==
    [op |-> "none", node |-> NULL,
     edges |-> [n \in Nodes |-> <<>>], tokens |-> [n \in Nodes |-> <<>>],
     nEdges |-> 0, nTokens |-> 0]

InitBuild ==
    /\ graph = GraphUnbuilt
    /\ \E g \in [Nodes -> Garbage] : bots = LoadedEngine(g).bots
    /\ alive = Nodes
    /\ handle = NULL
    /\ heap = {}
    /\ sink = <<>>
    /\ status = "ok"
    /\ fault = "none"
    /\ call = NoBuildCall
    /\ twin = BlankEngine
    /\ lev = LevIdle

BuildAddToken ==
    /\ ~Dead(Engine)
    /\ call.nTokens < MaxTokens
    /\ \E node \in BuildNodes \cap alive, token \in BuildTokens :
        /\ Install(AddToken(Engine, node, token))
        /\ call' = [call EXCEPT !.op = "token", !.node = node,
                                !.tokens[node] = Append(@, token),
                                !.nTokens = @ + 1]
    /\ UNCHANGED <<twin, lev>>

BuildLoadEdge ==
    /\ ~Dead(Engine)
    /\ call.nEdges < MaxEdges
    /\ \E parent \in BuildNodes \cap alive, child \in BuildNodes \cap alive :
        /\ Install(LoadEdge(Engine, call.nEdges + 1, parent, child))
        /\ call' = [call EXCEPT !.op = "edge", !.node = parent,
                                !.edges[parent] = Append(@, call.nEdges + 1),
                                !.nEdges = @ + 1]
    /\ UNCHANGED <<twin, lev>>

BuildDestroyNode ==
    /\ ~Dead(Engine)
    /\ \E node \in BuildNodes \cap alive, ub \in DoubleDeleteOutcomes :
        /\ Install(GraphNodeDtor(Engine, node, ub))
        /\ call' = [call EXCEPT !.op = "destroy", !.node = node]
    /\ UNCHANGED <<twin, lev>>

NextBuild == BuildAddToken \/ BuildLoadEdge \/ BuildDestroyNode

SpecBuild == InitBuild /\ [][NextBuild]_vars

\* ------------------------------------------------- rule-of-five specification
\* ChatBot objects are constructed, copied, moved and destroyed in any order
\* in three places of storage.
PoolBots == {LocalBot, ParamBot, "n0"}

\* SetChatLogicHandle(chatLogic) and SetRootNode(rootNode) on a ChatBot
AttachHandles(m, b) ==
    [m EXCEPT !.bots[b].chatLogic = TheChatLogic, !.bots[b].rootNode = graph.root]

\* the last operation; source and destination are recorded for moves
PoolCall(op) == [op |-> op, src |-> NULL, dst |-> NULL]

InitPool ==
    /\ graph = GraphHello
    /\ bots = BlankEngine.bots
    /\ alive = {}
    /\ handle = NULL
    /\ heap = {}
    /\ sink = <<>>
    /\ status = "ok"
    /\ fault = "none"
    /\ call = PoolCall("none")
    /\ twin = BlankEngine
    /\ lev = LevIdle

PoolDefaultCtor ==
    /\ ~Dead(Engine)
    /\ \E b \in PoolBots \ alive, g \in Garbage :
        Install(ChatBotDefaultCtor(Engine, b, g))
    /\ call' = PoolCall("ctor")
    /\ UNCHANGED <<twin, lev>>

PoolFileCtor ==
    /\ ~Dead(Engine)
    /\ \E b \in PoolBots \ alive, g \in Garbage :
        Install(ChatBotFileCtor(Engine, b, g))
    /\ call' = PoolCall("filector")
    /\ UNCHANGED <<twin, lev>>

PoolAttach ==
    /\ ~Dead(Engine)
    /\ \E b \in PoolBots \cap alive :
        /\ bots[b].chatLogic = NULL
        /\ Install(AttachHandles(Engine, b))
    /\ call' = PoolCall("attach")
    /\ UNCHANGED <<twin, lev>>

PoolCopyCtor ==
    /\ ~Dead(Engine)
    /\ \E dst \in PoolBots \ alive, src \in PoolBots \cap alive :
        Install(ChatBotCopyCtor(Engine, dst, src))
    /\ call' = PoolCall("copyctor")
    /\ UNCHANGED <<twin, lev>>

PoolCopyAssign ==
    /\ ~Dead(Engine)
    /\ \E dst \in PoolBots \cap alive, src \in PoolBots \cap alive :
        Install(ChatBotCopyAssign(Engine, dst, src))
    /\ call' = PoolCall("copyassign")
    /\ UNCHANGED <<twin, lev>>

PoolMoveCtor ==
    /\ ~Dead(Engine)
    /\ \E dst \in PoolBots \ alive, src \in PoolBots \cap alive :
        /\ Install(ChatBotMoveCtor(Engine, dst, src))
        /\ call' = [op |-> "move", src |-> src, dst |-> dst]
    /\ UNCHANGED <<twin, lev>>

PoolMoveAssign ==
    /\ ~Dead(Engine)
    /\ \E dst \in PoolBots \cap alive, src \in PoolBots \cap alive :
        /\ Install(ChatBotMoveAssign(Engine, dst, src))
        /\ call' = [op |-> "move", src |-> src, dst |-> dst]
    /\ UNCHANGED <<twin, lev>>

PoolDtor ==
    /\ ~Dead(Engine)
    /\ \E b \in PoolBots \cap alive : Install(ChatBotDtor(Engine, b))
    /\ call' = PoolCall("dtor")
    /\ UNCHANGED <<twin, lev>>

NextPool ==
    \/ PoolDefaultCtor \/ PoolFileCtor \/ PoolAttach
    \/ PoolCopyCtor \/ PoolCopyAssign
    \/ PoolMoveCtor \/ PoolMoveAssign
    \/ PoolDtor

SpecPool == InitPool /\ [][NextPool]_vars

\* ------------------------------------------------------------------ claims
\* the last operation was a ReceiveMessageFromUser call and the process lives
Received == call.op = "receive" /\ ~Dead(Engine)

\* the pairs the last call enumerated
LastDists == LevDists(call.from, call.msg)

\* the least distance among the pairs of a non-empty levDists
MinDist(levDists) ==
    CHOOSE d \in {levDists[i].dist : i \in 1..Len(levDists)} :
        \A i \in 1..Len(levDists) : d <= levDists[i].dist

\* the edges of the node (0-based indices) that have a keyword at the least
\* distance from the message
BestEdges(node, message) ==
    {i \in 0..(GetNumberOfChildEdges(node) - 1) :
        \E k \in 1..Len(GetChildEdgeAtIndex(node, i).keywords) :
            ComputeLevenshteinDistance(GetChildEdgeAtIndex(node, i).keywords[k], message)
                = MinDist(LevDists(node, message))}

\* C1: after a call made with at least one (edge, keyword) pair, the cursor
\* is the target of an edge that has a keyword at the minimum distance from
\* the input; an edge whose keywords are all farther away is never taken.
BestEdgeChosen ==
    (Received /\ Len(LastDists) > 0) =>
        \E i \in BestEdges(call.from, call.msg) :
            Cursor = GetChildEdgeAtIndex(call.from, i).childNode

\* C1 witness: section 8's example, "helo" at "hi" / "hello" moves to the
\* target of "hello" although "hi" was enumerated first.
BestEdgeChosenWitness ==
    /\ Received /\ status = "ok"
    /\ graph = GraphHello /\ call.from = "n0" /\ call.msg = <<"h", "e", "l", "o">>
    /\ LastDists = <<[edge |-> 0, dist |-> 3], [edge |-> 1, dist |-> 1]>>
    /\ Cursor = "n2"

\* the first pair, in enumeration order, at the least distance
FirstBest(levDists) ==
    levDists[CHOOSE i \in 1..Len(levDists) :
        /\ levDists[i].dist = MinDist(levDists)
        /\ \A k \in 1..(i - 1) : levDists[k].dist # MinDist(levDists)]

\* C2: among pairs at the same minimum distance the edge of the pair
\* enumerated first (edges in insertion order, keywords in insertion order)
\* is the one taken.
FirstEnumeratedChosen ==
    (Received /\ Len(LastDists) > 0) =>
        Cursor = GetChildEdgeAtIndex(call.from, FirstBest(LastDists).edge).childNode

\* C3: a call made with an empty pair set (no outgoing edge, or only edges
\* without keywords) moves the cursor to the root node, whatever the input.
LeafFallsBackToRoot ==
    (Received /\ Len(LastDists) = 0) => Cursor = graph.root

\* C3 witness: a call from a node other than the root, with outgoing edges
\* that carry no keyword and a non-empty input, arrived at the root.
LeafFallsBackToRootWitness ==
    /\ Received /\ status = "ok"
    /\ Len(LastDists) = 0
    /\ GetNumberOfChildEdges(call.from) > 0
    /\ call.from # graph.root
    /\ call.msg # <<>>
    /\ Cursor = graph.root

\* C4: the matcher returns the reference Levenshtein distance of the
\* case-normalised arguments; with an empty argument it returns the length of
\* the other one.
LevMatchesReference ==
    lev.pc = "returned" =>
        /\ lev.result = RefDistance(UpperString(lev.a), UpperString(lev.b))
        /\ (lev.a = <<>> => lev.result = Len(lev.b))
        /\ (lev.b = <<>> => lev.result = Len(lev.a))

\* C4 witness: arguments in mixed case and of different lengths, two edits
\* apart (one substitution and one deletion)
LevMatchesReferenceWitness ==
    /\ lev.pc = "returned"
    /\ lev.a = <<"a", "A", "b">> /\ lev.b = <<"b", "A">>
    /\ lev.result = 2

\* C5: a completed call delivered exactly one message to the output sink,
\* and it is one of the responses of the node the cursor is on after the call.
OneResponseOfDestination ==
    (Received /\ status = "ok") =>
        /\ Len(sink) = 1
        /\ \E k \in 1..Len(graph.answers[Cursor]) : sink[1] = graph.answers[Cursor][k]

\* C5 witness: the call moved to another node, and what was delivered is the
\* second response of that node and no response of the node it left.
OneResponseOfDestinationWitness ==
    /\ Received /\ status = "ok"
    /\ call.from # Cursor
    /\ Len(sink) = 1
    /\ Len(graph.answers[Cursor]) = 2 /\ sink[1] = graph.answers[Cursor][2]
    /\ \A k \in 1..Len(graph.answers[call.from]) : sink[1] # graph.answers[call.from][k]

\* C6: a call whose destination has no responses ends in an error raised to
\* the caller by defined behaviour, with nothing delivered and the process
\* alive.
EmptyResponsesRaiseDefinedError ==
    (call.op = "receive" /\ Cursor \in Nodes /\ Len(graph.answers[Cursor]) = 0) =>
        /\ status \notin {"crashed", "aborted"}
        /\ fault = "none"
        /\ sink = <<>>

\* C7 as claimed: right after either constructor, before any other
\* operation, the cursor of the new ChatBot is the root node.
CursorIsRootAfterConstruction ==
    call.op = "ctor" => bots[LocalBot].currentNode = graph.root

\* C7 as amended: a constructor leaves the root reference and the chat-logic
\* handle null and does not set the cursor; once the chatbot has been placed
\* on the root node (MoveChatbotHere on the root) the cursor is the root node.
CursorIsRootAfterPlacement ==
    /\ call.op = "ctor" =>
        /\ bots[LocalBot].rootNode = NULL
        /\ bots[LocalBot].chatLogic = NULL
        /\ bots[LocalBot].currentNode \in Garbage
    /\ (call.op = "init" /\ ~Dead(Engine)) => Cursor = graph.root

\* C7 witness: the chatbot built by ChatBot(filename) has been placed on the
\* root node, no message has been received yet, and the cursor is the root.
CursorIsRootAfterPlacementWitness ==
    /\ call.op = "init" /\ status = "ok"
    /\ LocalBot \in alive
    /\ handle = graph.root
    /\ Cursor = graph.root

\* C8: after initialization and after every call, the cursor of the active
\* ChatBot is a node of the graph (not null, not an unwritten value) and its
\* root reference is a node of the graph.
CursorAlwaysValid ==
    (call.op \in {"init", "receive"} /\ ~Dead(Engine)) =>
        /\ handle \in alive
        /\ Cursor \in Nodes
        /\ bots[handle].rootNode \in Nodes

\* C8 witness: two hops away from the root the cursor is a node and the
\* root reference still is the root.
CursorAlwaysValidWitness ==
    /\ Received
    /\ call.from # graph.root /\ Cursor # graph.root /\ Cursor # call.from
    /\ bots[handle].rootNode = graph.root

\* C9: two instances over the same graph, started the same way and fed the
\* same inputs, are on the same node and have emitted the same response with
\* the same outcome.
TwinsAgree ==
    call.op \in {"pair_init", "pair_receive"} =>
        /\ TwinCursor = Cursor
        /\ twin.sink = sink
        /\ twin.status = status

\* the ChatBot instances of the nodes that refer to a node as their current
\* node
NodeBotsWithCursor == {n \in Nodes : bots[n].currentNode \in Nodes}

\* C10: exactly one ChatBot holds a current node, and a move from node A to
\* node B leaves nothing of the ChatBot behind in A.
SingleCursorNothingLeftBehind ==
    (call.op \in {"init", "receive"} /\ ~Dead(Engine)) =>
        /\ Cardinality(NodeBotsWithCursor) = 1
        /\ (call.op = "receive" /\ call.from # Cursor) => bots[call.from] = NoBot

\* every node of the graph has at least one response
AllNodesAnswer == \A n \in Nodes : Len(graph.answers[n]) > 0

\* C11: over a graph whose nodes all have responses there is no terminal
\* state: once the chatbot is on the root, every call completes and leaves a
\* state in which a call with any input can be made again.
NoTerminalState ==
    (AllNodesAnswer /\ ((call.op = "init" /\ status = "ok") \/ call.op = "receive")) =>
        /\ status = "ok"
        /\ ReceiveEnabled
        /\ \A msg \in Msgs : Fronts(Cursor, msg) # {}

\* C11 witness: a call made on a leaf other than the root completed through
\* the root fallback, and a further call can be made.
NoTerminalStateWitness ==
    /\ AllNodesAnswer
    /\ call.op = "receive" /\ status = "ok"
    /\ GetNumberOfChildEdges(call.from) = 0 /\ call.from # graph.root
    /\ ReceiveEnabled

\* C12: a ReceiveMessageFromUser call leaves the graph (responses, outgoing
\* edges with their order, keywords and targets) and the root reference of
\* the engine as they were.
GraphAndRootUnchanged ==
    [][call'.op = "receive" =>
        /\ graph' = graph
        /\ (status' \notin {"crashed", "aborted"} =>
                bots'[handle'].rootNode = bots[handle].rootNode)]_vars

\* C12 witness: a call moved the chatbot to another node with two responses
\* and sent one of them; the graph is one of the loaded graphs as loaded.
GraphAndRootUnchangedWitness ==
    /\ call.op = "receive" /\ status = "ok"
    /\ call.from # Cursor
    /\ Len(sink) = 1 /\ Len(graph.answers[Cursor]) = 2
    /\ graph \in Graphs
    /\ bots[handle].rootNode = graph.root

\* C13: the matcher is symmetric: the distance returned for (a, b) is the
\* distance it returns for (b, a).
LevSymmetric ==
    lev.pc = "returned" =>
        lev.result = ComputeLevenshteinDistance(lev.b, lev.a)

\* C13 witness: arguments of different lengths, neither a prefix of the
\* other, for which the matcher returned a positive distance
LevSymmetricWitness ==
    /\ lev.pc = "returned"
    /\ lev.a = <<"a", "b">> /\ lev.b = <<"B">>
    /\ lev.result = 1

\* the letter c in the other case; characters that are not letters unchanged
FlipCase(c) ==
    IF \E i \in 1..Len(LowerCase) : LowerCase[i] = c
    THEN UpperCase[CHOOSE i \in 1..Len(LowerCase) : LowerCase[i] = c]
    ELSE IF \E i \in 1..Len(UpperCase) : UpperCase[i] = c
    THEN LowerCase[CHOOSE i \in 1..Len(UpperCase) : UpperCase[i] = c]
    ELSE c

\* the string s with the case of its i-th character changed
FlipAt(s, i) == [s EXCEPT ![i] = FlipCase(s[i])]

\* C15: the matcher is case-insensitive: strings that differ only in letter
\* case (a string and itself included) are at distance 0, and changing the
\* case of a character of either argument does not change the distance.
LevCaseInsensitive ==
    lev.pc = "returned" =>
        /\ (UpperString(lev.a) = UpperString(lev.b) => lev.result = 0)
        /\ \A i \in 1..Len(lev.a) :
              ComputeLevenshteinDistance(FlipAt(lev.a, i), lev.b) = lev.result
        /\ \A i \in 1..Len(lev.b) :
              ComputeLevenshteinDistance(lev.a, FlipAt(lev.b, i)) = lev.result

\* C15 witness: two different strings that differ only in letter case were
\* compared and found at distance 0
LevCaseInsensitiveWitness ==
    /\ lev.pc = "returned"
    /\ lev.a = <<"a", "B", "a">> /\ lev.b = <<"A", "b", "a">>
    /\ lev.result = 0

\* C14: the matcher satisfies the triangle inequality: the distance from a
\* to c is at most the distance from a to b plus the distance from b to c.
LevTriangle ==
    lev.pc = "returned" => lev.ac <= lev.ab + lev.bc

\* C14 witness: three different strings for which the inequality is tight,
\* the middle one lying on a shortest edit path between the other two
LevTriangleWitness ==
    /\ lev.pc = "returned"
    /\ lev.a = <<"a">> /\ lev.b = <<"a", "b">> /\ lev.c = <<"b", "b">>
    /\ lev.ab = 1 /\ lev.bc = 1 /\ lev.ac = 2

\* C16: the outgoing-edge list of a node keeps insertion order:
\* GetChildEdgeAtIndex(i) is the edge handed to the (i+1)-th
\* AddEdgeToChildNode call on the node, for every i below the number of
\* calls, and the responses of the node are the tokens handed to AddToken in
\* call order, none dropped and none de-duplicated.
InsertionOrderKept ==
    \A node \in BuildNodes \cap alive :
        /\ GetNumberOfChildEdges(node) = Len(call.edges[node])
        /\ \A i \in 0..(Len(call.edges[node]) - 1) :
              GetChildEdgeAtIndex(node, i) = call.edges[node][i + 1]
        /\ graph.answers[node] = call.tokens[node]

\* C16 witness: a node was handed three edges, and another node the same
\* response twice
InsertionOrderKeptWitness ==
    /\ {"n0", "n1"} \subseteq alive
    /\ call.edges["n0"] = <<1, 2, 3>>
    /\ GetChildEdgeAtIndex("n0", 0) = 1 /\ GetChildEdgeAtIndex("n0", 2) = 3
    /\ call.tokens["n1"] = <<"y", "y">>

\* the places (node, position) of an outgoing-edge list that hold the edge
OwnerSlots(edge) ==
    {p \in Nodes \X (1..MaxEdges + 1) :
        /\ p[2] <= Len(graph.childEdges[p[1]])
        /\ graph.childEdges[p[1]][p[2]] = edge}

\* the edges each node owns: those in its outgoing-edge list
OwnedEdges ==
    [node \in Nodes |-> {graph.childEdges[node][i] : i \in 1..Len(graph.childEdges[node])}]

\* every allocated edge is in exactly one place of one outgoing-edge list
OwnedOnce == \A edge \in heap : Cardinality(OwnerSlots(edge)) = 1

\* C17: every allocated edge is owned by exactly one node, the one it was
\* handed to with AddEdgeToChildNode, whatever nodes refer to it through
\* AddEdgeToParentNode; destroying a node deallocates exactly the edges of
\* its outgoing-edge list, each once, and no other edge and no other node.
EdgesOwnedBySource ==
    [][/\ OwnedOnce'
       /\ fault' # "double_free"
       /\ call'.op = "edge" =>
            /\ OwnedEdges'[call'.node] = OwnedEdges[call'.node] \cup {call'.nEdges}
            /\ heap' = heap \cup {call'.nEdges}
       /\ call'.op = "destroy" =>
            /\ heap' = heap \ OwnedEdges[call'.node]
            /\ OwnedEdges[call'.node] \subseteq heap
            /\ alive' = alive \ {call'.node}]_vars

\* C17 witness: a node was destroyed that owned an edge and was the target
\* of an edge of another node; the other node and its edge are left
EdgesOwnedBySourceWitness ==
    /\ call.op = "destroy" /\ call.node = "n1"
    /\ call.edges["n1"] = <<2>> /\ 2 \notin heap
    /\ call.edges["n0"] = <<1>> /\ 1 \in heap
    /\ graph.parentEdges["n0"] = <<2>>
    /\ "n0" \in alive /\ "n1" \notin alive

\* C18: after MoveChatbotHere and after every ReceiveMessageFromUser call
\* that left the process alive, the handle registered with ChatLogic
\* designates the ChatBot stored in the node the cursor is on, that
\* instance's _currentNode is that node, and the handle designates a live
\* ChatBot, never the destroyed parameter of MoveChatbotHere.
HandleDesignatesCursorBot ==
    (call.op \in {"init", "receive"} /\ ~Dead(Engine)) =>
        /\ handle \in Nodes
        /\ handle \in alive
        /\ bots[handle].currentNode = handle
        /\ handle # ParamBot /\ ParamBot \notin alive

\* C18 witness: a call moved the chatbot to another node; the instance of
\* the node it left still exists, and the handle designates the new one.
HandleDesignatesCursorBotWitness ==
    /\ call.op = "receive" /\ status = "ok"
    /\ call.from # handle /\ call.from \in alive
    /\ bots[call.from].currentNode = call.from
    /\ bots[handle].currentNode = handle
    /\ ParamBot \notin alive

\* C20: after the chatbot was placed on the root, no copy made by a
\* ReceiveMessageFromUser call reads a null or freed image or a null
\* chat-logic handle: no call ends in a fault of that kind, the
\* instance copied from (the one of the node the call was made on) has its
\* image and its handle, and the instance copied into is the one of the
\* node the cursor is on.
NoNullDereferenceInTraversal ==
    call.op = "receive" =>
        /\ fault \notin {"null_deref", "use_after_free", "double_free"}
        /\ bots[call.from].image \in heap
        /\ bots[call.from].chatLogic = TheChatLogic
        /\ bots[Cursor].image \in heap
        /\ bots[Cursor].chatLogic = TheChatLogic
        /\ (call.from # Cursor => bots[Cursor].image # bots[call.from].image)

\* C20 witness: a transition from a node to itself along one of its edges;
\* the instance of the node was copied into the parameter and back
NoNullDereferenceInTraversalWitness ==
    /\ call.op = "receive" /\ status = "ok"
    /\ call.from = Cursor
    /\ LastDists # <<>>
    /\ bots[Cursor].image \in heap

\* the other case of C20: the root fallback taken while already at the root
RootFallbackAtRootReached ==
    /\ call.op = "receive" /\ status = "ok"
    /\ call.from = graph.root /\ Cursor = graph.root
    /\ LastDists = <<>>
    /\ bots[Cursor].image \in heap

\* the live ChatBots whose _image is the image
ImageOwners(img) == {b \in alive : bots[b].image = img}

\* C19: after any sequence of constructions, copies, moves and destructions
\* of ChatBots every allocated image is the _image of at most one live
\* ChatBot and no image is deallocated twice; a move from a source into a
\* different destination leaves the destination with the source's former
\* image, current node, root and chat-logic handle and the source with null
\* in all four.
ExclusiveImageOwnership ==
    [][/\ \A img \in heap' : Cardinality(ImageOwners(img)') <= 1
       /\ fault' # "double_free"
       /\ (call'.op = "move" /\ call'.src # call'.dst /\ status' # "crashed") =>
            /\ bots'[call'.dst] = bots[call'.src]
            /\ bots'[call'.src] = NoBot]_vars

\* C19 witness: a ChatBot was moved into another place: the destination
\* holds an allocated image, the root and the handle, the source holds null
\* in all four members, and a third ChatBot keeps a different image.
ExclusiveImageOwnershipWitness ==
    /\ call.op = "move" /\ call.src = LocalBot /\ call.dst = ParamBot
    /\ status = "ok"
    /\ alive = PoolBots
    /\ bots[ParamBot].image \in heap /\ bots[ParamBot].chatLogic = TheChatLogic
    /\ bots[ParamBot].rootNode = graph.root
    /\ bots[LocalBot] = NoBot
    /\ bots["n0"].image \in heap /\ bots["n0"].image # bots[ParamBot].image
    /\ Cardinality(heap) = 2
====
